---- MODULE Spec2Model ----
(***************************************************************************)
(* Eligibility proofs of veritas-zero-health: the age-range circuit        *)
(* (circuits/composite), the diagnosis-membership circuit                  *)
(* (circuits/diagnosis) and the halo2 wrapper (plonk-wrappers/             *)
(* plonk-composite).  One generate or verify call runs at a time, a step   *)
(* per stage of the call; ConcurrentSpec runs two calls, the steps of one  *)
(* interleaved with the steps of the other.                                *)
(*                                                                         *)
(* A field element of bn256::Fr is kept as two limbs of its little-endian  *)
(* canonical representation: lo, the first 8 bytes, and hi, the remaining  *)
(* 24 bytes.  Its integer value is hi * 2^64 + lo.                         *)
(*                                                                         *)
(* The proving backend is external.  It is modelled by what a sound and    *)
(* complete non-interactive argument with a Fiat-Shamir transcript gives:  *)
(* a proof is bound to the backend, the circuit shape, the instance vector *)
(* absorbed into the transcript and the prover's randomness; it verifies   *)
(* exactly against that shape and that instance vector.                    *)
(***************************************************************************)
EXTENDS Integers, Sequences, FiniteSets, TLC

VARIABLES pc, call, loc, result, held, rngLog, proveCalls, verifyCalls, parked

vars == <<pc, call, loc, result, held, rngLog, proveCalls, verifyCalls, parked>>

\* ---------------------------------------------------------------- bounds
\* u64 values 0..MaxLo are the low limbs the inputs are drawn from.
MaxLo == 2
\* study identifiers are Fr::from(0..MaxStudy).
MaxStudy == 1
\* backend prove invocations recorded in rngLog.
MaxGen == 2
\* length of a patient's list of diagnosis codes.
MaxCodes == 2

\* A zero or a non-zero upper part: the value fits 64 bits or it does not.
HiLimbs == {0, 1}

\* ---------------------------------------------------------- field elements
Fr == [hi : HiLimbs, lo : 0..MaxLo]

FrFrom(n) == [hi |-> 0, lo |-> n]

FrZero == FrFrom(0)

StudyIds == {FrFrom(n) : n \in 0..MaxStudy}

\* to_repr(): the little-endian bytes, here in limbs of 8 bytes.
to_repr(f) == <<f.lo, f.hi>>

\* The value is below 2^64: it is Fr::from of a u64.
IsU64(f) == f.hi = 0

\* ------------------------------------------------------------------ results
NoErr == [tag |-> "none", field |-> "none", a |-> 0, b |-> 0]

Err(tag, field, a, b) == [tag |-> tag, field |-> field, a |-> a, b |-> b]

Ok(v) == [ok |-> TRUE, val |-> v, err |-> NoErr]

Fail(e) == [ok |-> FALSE, val |-> 0, err |-> e]

\* --------------------------------------------------------- field_to_u64
\* The first 8 bytes of the representation, little-endian; the length test
\* never fires for a 32-byte representation.
field_to_u64(f) ==
    IF Len(to_repr(f)) * 8 < 8
    THEN Fail(Err("FieldTooSmall", "none", 0, 0))
    ELSE Ok(to_repr(f)[1])

diagnosis_field_to_u64(f) ==
    IF Len(to_repr(f)) * 8 < 8
    THEN Fail(Err("FieldTooSmall", "none", 0, 0))
    ELSE Ok(to_repr(f)[1])

wrapper_field_to_u64(f) ==
    IF Len(to_repr(f)) * 8 < 8
    THEN Fail(Err("FieldTooSmall", "none", 0, 0))
    ELSE Ok(to_repr(f)[1])

\* ---------------------------------------------------- validate_age_range
validate_age_range_no_upper(age, min_age, max_age) ==
    IF age < min_age
    THEN Fail(Err("AgeBelowMin", "age", age, min_age))
    ELSE Ok(0)

validate_age_range_strict(age, min_age, max_age) ==
    IF age <= min_age
    THEN Fail(Err("AgeBelowMin", "age", age, min_age))
    ELSE IF age > max_age
         THEN Fail(Err("AgeAboveMax", "age", age, max_age))
         ELSE Ok(0)

validate_age_range_upper_first(age, min_age, max_age) ==
    IF age > max_age
    THEN Fail(Err("AgeAboveMax", "age", age, max_age))
    ELSE IF age < min_age
         THEN Fail(Err("AgeBelowMin", "age", age, min_age))
         ELSE Ok(0)

validate_age_range(age, min_age, max_age) ==
    IF age < min_age
    THEN Fail(Err("AgeBelowMin", "age", age, min_age))
    ELSE IF age > max_age
         THEN Fail(Err("AgeAboveMax", "age", age, max_age))
         ELSE Ok(0)

\* -------------------------------------------------------- diagnosis codes
\* ICD-10 code strings: the two of the crate's tests, a third, a
\* rearrangement and a lower-case spelling of "I10", and the empty string.
Codes == {"E11.9", "I10", "J45", "I01", "i10", ""}

\* code.bytes(): the UTF-8 bytes of the string.
Utf8(code) ==
    CASE code = "E11.9" -> <<69, 49, 49, 46, 57>>
      [] code = "I10" -> <<73, 49, 48>>
      [] code = "J45" -> <<74, 52, 53>>
      [] code = "I01" -> <<73, 48, 49>>
      [] code = "i10" -> <<105, 49, 48>>
      [] code = "" -> <<>>

\* Iterator::sum::<u64>() over the bytes.  A string long enough to carry
\* the sum past 2^64 - 1 does not fit an address space, so the sum is exact.
RECURSIVE SumU64(_)
SumU64(bytes) == IF bytes = <<>> THEN 0 ELSE Head(bytes) + SumU64(Tail(bytes))

hash_diagnosis_code_len(code) == Ok(Len(Utf8(code)))

hash_diagnosis_code(code) == Ok(SumU64(Utf8(code)))

\* patient_diagnoses.contains(&required_diagnosis.to_string()): String
\* equality is equality of the bytes.
validate_diagnosis_membership_first(patient_diagnoses, required_diagnosis) ==
    IF ~(Len(patient_diagnoses) > 0
         /\ Utf8(patient_diagnoses[1]) = Utf8(required_diagnosis))
    THEN Fail(Err("NotMember", required_diagnosis, 0, 0))
    ELSE Ok(0)

validate_diagnosis_membership(patient_diagnoses, required_diagnosis) ==
    IF ~(\E i \in DOMAIN patient_diagnoses :
            Utf8(patient_diagnoses[i]) = Utf8(required_diagnosis))
    THEN Fail(Err("NotMember", required_diagnosis, 0, 0))
    ELSE Ok(0)

\* ------------------------------------------------------------ named inputs
\* HashMap<String, Vec<_>>: an entry per name, present or not.
AgeFields == <<"age", "min_age", "max_age", "study_id">>

DiagFields == <<"diagnosis_hash", "required_hash", "study_id">>

\* The names a caller may use; "code" is read by no entry point.
AllFields ==
    {"age", "min_age", "max_age", "study_id", "diagnosis_hash", "required_hash", "code"}

Absent == [present |-> FALSE, vals |-> <<>>]

Entry(vals) == [present |-> TRUE, vals |-> vals]

NoInputs == [n \in AllFields |-> Absent]

\* The entry points that generate, and the circuit and backend of each:
\* generate_proof of the two circuit crates, their wasm32 prove, which wraps
\* generate_proof in string inputs and serialized outputs, and the halo2
\* wrapper's prove_with_params.
Paths == {"age", "diag", "wrapper", "age_wasm", "diag_wasm"}

Shapes == {"age", "diag"}

ShapeOf(path) == IF path \in {"diag", "diag_wasm"} THEN "diag" ELSE "age"

\* The entry point takes HashMap<String, Vec<String>> and exchanges the
\* public inputs as bytes.
Encoded(path) == path \in {"wrapper", "age_wasm", "diag_wasm"}

\* The halo2 entry points: prove_with_params / verify_with_params, and
\* the public generate_halo2_proof / verify_halo2_proof called directly.
Halo2(path) == path \in {"wrapper", "direct"}

BackendOf(path) == IF Halo2(path) THEN "halo2" ELSE "plonkish"

RequiredFields(path) == IF ShapeOf(path) = "diag" THEN DiagFields ELSE AgeFields

\* inputs.get(name).ok_or(Missing)?.get(0).ok_or(Invalid)?.clone()
ExtractFieldDefaulting(inputs, name) ==
    IF ~inputs[name].present
    THEN Fail(Err("Missing", name, 0, 0))
    ELSE IF Len(inputs[name].vals) = 0
         THEN Ok(FrZero)
         ELSE Ok(inputs[name].vals[1])

ExtractField(inputs, name) ==
    IF ~inputs[name].present
    THEN Fail(Err("Missing", name, 0, 0))
    ELSE IF Len(inputs[name].vals) = 0
         THEN Fail(Err("Invalid", name, 0, 0))
         ELSE Ok(inputs[name].vals[1])

\* The extractions with the last failure reported in place of the first.
ExtractAllLastFailure(fields, inputs) ==
    LET bad == {i \in DOMAIN fields : ~ExtractField(inputs, fields[i]).ok}
        last == CHOOSE i \in bad : \A j \in bad : i >= j
    IN  IF bad # {}
        THEN Fail(ExtractField(inputs, fields[last]).err)
        ELSE Ok([n \in AllFields |->
                    IF \E i \in DOMAIN fields : fields[i] = n
                    THEN ExtractField(inputs, n).val
                    ELSE FrZero])

\* The extractions in source order; the first failure returns.
ExtractAll(fields, inputs) ==
    LET bad == {i \in DOMAIN fields : ~ExtractField(inputs, fields[i]).ok}
        first == CHOOSE i \in bad : \A j \in bad : i <= j
    IN  IF bad # {}
        THEN Fail(ExtractField(inputs, fields[first]).err)
        ELSE Ok([n \in AllFields |->
                    IF \E i \in DOMAIN fields : fields[i] = n
                    THEN ExtractField(inputs, n).val
                    ELSE FrZero])

\* A string-encoded value of the wrapper's HashMap<String, Vec<String>>.
Str(f) == [str |-> f]

Stringify(inputs) ==
    [n \in AllFields |->
        [present |-> inputs[n].present,
         vals |-> [i \in DOMAIN inputs[n].vals |-> Str(inputs[n].vals[i])]]]

deserialize_circuit_inputs(input) ==
    [n \in AllFields |->
        [present |-> input[n].present,
         vals |-> [i \in DOMAIN input[n].vals |-> input[n].vals[i].str]]]

\* --------------------------------------------------------------- circuits
NoCircuit == [shape |-> "none"]

AgeRangeCircuit(age, min_age, max_age, study_id) ==
    [shape |-> "age", age |-> age, min_age |-> min_age,
     max_age |-> max_age, study_id |-> study_id]

DiagnosisMembershipCircuit(diagnosis_hash, required_hash, study_id) ==
    [shape |-> "diag", diagnosis_hash |-> diagnosis_hash,
     required_hash |-> required_hash, study_id |-> study_id]

\* CircuitExt::instances of AgeRangeCircuit
AgeInstancesStudyDropped(c) == <<c.min_age, c.max_age>>

AgeInstancesStudyFromMin(c) == <<c.min_age, c.max_age, c.min_age>>

AgeInstancesSwapped(c) == <<c.max_age, c.min_age, c.study_id>>

AgeInstances(c) == <<c.min_age, c.max_age, c.study_id>>

\* CircuitExt::instances of DiagnosisMembershipCircuit
DiagInstances(c) == <<c.required_hash, c.study_id>>

\* ------------------------------------------------ configure and synthesize
\* Circuit::configure: the columns allocated and those passed to
\* enable_equality.  The one gate is selector * (x - x) over an advice cell.
AgeConfigure ==
    [advice |-> {"age", "min_age", "max_age"},
     instance |-> {"instance"},
     selector |-> {"selector"},
     equality |-> {"age", "min_age", "max_age", "instance"}]

DiagConfigure ==
    [advice |-> {"diagnosis_hash", "required_hash"},
     instance |-> {"instance"},
     selector |-> {"selector"},
     equality |-> {"diagnosis_hash", "required_hash", "instance"}]

Configure(shape) == IF shape = "diag" THEN DiagConfigure ELSE AgeConfigure

Cell(column, row, value) == [column |-> column, row |-> row, value |-> value]

NoRegion == [enabled |-> {}, assigned |-> <<>>]

\* Circuit::synthesize: selector.enable(region, 0) and the assign_advice
\* calls of the one region, in order.
AgeSynthesize(c) ==
    [enabled |-> {0},
     assigned |-> <<Cell("age", 0, c.age),
                    Cell("min_age", 0, c.min_age),
                    Cell("max_age", 0, c.max_age)>>]

DiagSynthesize(c) ==
    [enabled |-> {0},
     assigned |-> <<Cell("diagnosis_hash", 0, c.diagnosis_hash),
                    Cell("required_hash", 0, c.required_hash)>>]

Synthesize(c) == IF c.shape = "diag" THEN DiagSynthesize(c) ELSE AgeSynthesize(c)

\* ------------------------------------------------------------------ gates
\* A gate polynomial is kept by whether it vanishes, which is all the
\* argument shows of it: a difference vanishes iff its operands are equal,
\* a product iff a factor vanishes.
Sub(a, b) == IF a = b THEN "zero" ELSE "nonzero"

Mul(x, y) == IF x = "zero" \/ y = "zero" THEN "zero" ELSE "nonzero"

\* query_selector at a row: one where the selector is enabled, else zero.
QuerySelector(region, row) == IF row \in region.enabled THEN "nonzero" ELSE "zero"

\* query_advice(column, Rotation::cur()) at a row; an unassigned cell is 0.
QueryAdvice(region, column, row) ==
    LET at == {i \in DOMAIN region.assigned :
                  region.assigned[i].column = column /\ region.assigned[i].row = row}
    IN  IF at = {} THEN FrZero ELSE region.assigned[CHOOSE i \in at : TRUE].value

\* The integer order of two field elements, by their canonical value.
FrLeq(a, b) == a.hi < b.hi \/ (a.hi = b.hi /\ a.lo <= b.lo)

\* create_gate("age knowledge"): s * (age - age).
AgeGateRangeChecked(region, row) ==
    LET s == QuerySelector(region, row)
        age_val == QueryAdvice(region, "age", row)
        min_val == QueryAdvice(region, "min_age", row)
        max_val == QueryAdvice(region, "max_age", row)
    IN  Mul(s, IF FrLeq(min_val, age_val) /\ FrLeq(age_val, max_val)
               THEN "zero" ELSE "nonzero")

AgeGate(region, row) ==
    LET s == QuerySelector(region, row)
        age_val == QueryAdvice(region, "age", row)
        min_val == QueryAdvice(region, "min_age", row)
        max_val == QueryAdvice(region, "max_age", row)
    IN  Mul(s, Sub(age_val, age_val))

\* create_gate("diagnosis membership"): s * (diag_hash - diag_hash).
DiagGate(region, row) ==
    LET s == QuerySelector(region, row)
        diag_hash == QueryAdvice(region, "diagnosis_hash", row)
        req_hash == QueryAdvice(region, "required_hash", row)
    IN  Mul(s, Sub(diag_hash, diag_hash))

\* The rows of the single region.
Rows == {0}

\* Every gate of the shape vanishes on every row of the assignment.
GatesVanish(shape, region) ==
    \A row \in Rows :
        (IF shape = "diag" THEN DiagGate(region, row) ELSE AgeGate(region, row)) = "zero"

\* -------------------------------------------------- off-circuit validation
\* generate_proof of the age-range circuit, lines 297-303
AgeValidate(vals) ==
    LET a == field_to_u64(vals["age"])
        mn == field_to_u64(vals["min_age"])
        mx == field_to_u64(vals["max_age"])
    IN  IF ~a.ok THEN a
        ELSE IF ~mn.ok THEN mn
        ELSE IF ~mx.ok THEN mx
        ELSE validate_age_range(a.val, mn.val, mx.val)

\* prove_with_params, lines 128-134
WrapperValidate(vals) ==
    LET a == wrapper_field_to_u64(vals["age"])
        mn == wrapper_field_to_u64(vals["min_age"])
        mx == wrapper_field_to_u64(vals["max_age"])
    IN  IF ~a.ok THEN a
        ELSE IF ~mn.ok THEN mn
        ELSE IF ~mx.ok THEN mx
        ELSE validate_age_range(a.val, mn.val, mx.val)

\* generate_proof of the diagnosis circuit, lines 266-276
DiagValidate(vals) ==
    LET d == diagnosis_field_to_u64(vals["diagnosis_hash"])
        r == diagnosis_field_to_u64(vals["required_hash"])
    IN  IF ~d.ok THEN d
        ELSE IF ~r.ok THEN r
        ELSE IF d.val # r.val
             THEN Fail(Err("HashMismatch", "diagnosis_hash", d.val, r.val))
             ELSE Ok(0)

Validate(path, vals) ==
    IF path = "wrapper" THEN WrapperValidate(vals)
    ELSE IF ShapeOf(path) = "age" THEN AgeValidate(vals)
    ELSE DiagValidate(vals)

BuildCircuit(path, vals) ==
    IF ShapeOf(path) = "diag"
    THEN DiagnosisMembershipCircuit(vals["diagnosis_hash"], vals["required_hash"],
                                    vals["study_id"])
    ELSE AgeRangeCircuit(vals["age"], vals["min_age"], vals["max_age"],
                         vals["study_id"])

\* The vector generate returns: vec![min_age, max_age, study_id] or
\* vec![required_hash, study_id].
PublicInputsStudyFirst(path, vals) ==
    IF ShapeOf(path) = "diag"
    THEN <<vals["study_id"], vals["required_hash"]>>
    ELSE <<vals["study_id"], vals["min_age"], vals["max_age"]>>

PublicInputsLeakAge(path, vals) ==
    IF ShapeOf(path) = "diag"
    THEN <<vals["required_hash"], vals["study_id"]>>
    ELSE <<vals["age"], vals["max_age"], vals["study_id"]>>

PublicInputs(path, vals) ==
    IF ShapeOf(path) = "diag"
    THEN <<vals["required_hash"], vals["study_id"]>>
    ELSE <<vals["min_age"], vals["max_age"], vals["study_id"]>>

\* The instance vector the backend's prover absorbs: the circuit's
\* instances() through Halo2Circuit on the core paths, the public_inputs
\* argument of create_proof on the wrapper.
ProverInstances(path, circuit, pubs) ==
    IF Halo2(path) THEN pubs
    ELSE IF ShapeOf(path) = "age" THEN AgeInstances(circuit)
    ELSE DiagInstances(circuit)

\* ------------------------------------------------------------- randomness
\* plonkish_backend::util::test::std_rng(): StdRng from the default
\* (all-zero) seed, the same stream at every call.
std_rng == 0

\* rand::rngs::OsRng: operating-system entropy, a stream never seen before.
OsRng(log) == 1 + Cardinality({i \in DOMAIN log : log[i] # 0})

ProverRng(path, log) == IF Halo2(path) THEN OsRng(log) ELSE std_rng

\* ---------------------------------------------------------------- backend
NoProof ==
    [backend |-> "none", shape |-> "none", inst |-> <<>>, rnd |-> 0, sat |-> FALSE]

\* Bytes no prover produced.
GarbageProof ==
    [backend |-> "garbage", shape |-> "none", inst |-> <<>>, rnd |-> 0, sat |-> FALSE]

\* PlonkishBackend::prove / halo2 create_proof: fails when the parameters
\* were not generated for the circuit's shape.  The prover does not test
\* the gates; a proof over an assignment on which a gate does not vanish
\* is produced and does not verify.
BackendProve(backend, pk, shape, region, instances, rnd) ==
    IF pk = shape
    THEN Ok([backend |-> backend, shape |-> shape, inst |-> instances, rnd |-> rnd,
             sat |-> GatesVanish(shape, region)])
    ELSE Fail(Err("Backend", "none", 0, 0))

\* PlonkishBackend::verify / halo2 verify_proof: TRUE when the proof is one
\* this backend produced for the shape of vk and the supplied instances,
\* over an assignment satisfying the gates.
BackendVerify(backend, vk, proof, instances) ==
    /\ proof.backend = backend
    /\ proof.shape = vk
    /\ proof.inst = instances
    /\ proof.sat

\* ---------------------------------------------------------- serialization
\* Bytes are kept in words of 8, as the representation of a field element
\* is: a vector of n elements is the word n followed by 2n limbs.
NoBytes == <<>>

\* The limbs of the elements in order, each in to_repr order.
Limbs(v) ==
    [i \in 1..(2 * Len(v)) |->
        IF i % 2 = 1 THEN to_repr(v[(i + 1) \div 2])[1] ELSE to_repr(v[i \div 2])[2]]

\* from_repr of the k-th pair of limbs after the length word.
FromLimbs(b, k) == [hi |-> b[2 * k + 1], lo |-> b[2 * k]]

\* bincode of InputsSerializationWrapper: the length, then the elements.
Serialize(v) == <<Len(v)>> \o Limbs(v)

\* The length is read, then that many elements; bytes that end early or
\* go on after the last element are an error.
Deserialize(b) ==
    IF Len(b) = 0 \/ Len(b) # 1 + 2 * b[1]
    THEN Fail(Err("Corrupt", "none", 0, 0))
    ELSE Ok([k \in 1..b[1] |-> FromLimbs(b, k)])

\* The bytes of v cut short by a word.
Corrupt(v) == SubSeq(Serialize(v), 1, Len(Serialize(v)) - 1)

\* ------------------------------------------------- the calls that are made
\* A list holding v, alone or followed by a further element.
ListOf(v, extra) == IF extra THEN <<v, FrFrom(MaxLo)>> ELSE <<v>>

IndexOf(fields, n) == CHOOSE i \in DOMAIN fields : fields[i] = n

InFields(fields, n) == \E i \in DOMAIN fields : fields[i] = n

\* Every required name present with one value (or two).
FullMap(fields, values, extra) ==
    [n \in AllFields |->
        IF InFields(fields, n)
        THEN Entry(ListOf(values[IndexOf(fields, n)], extra))
        ELSE Absent]

\* Some required name absent or mapped to the empty list.
Presence == {"absent", "empty", "one"}

DefectMap(fields, pat, values) ==
    [n \in AllFields |->
        IF ~InFields(fields, n) \/ pat[IndexOf(fields, n)] = "absent" THEN Absent
        ELSE IF pat[IndexOf(fields, n)] = "empty" THEN Entry(<<>>)
        ELSE Entry(<<values[IndexOf(fields, n)]>>)]

Defects(fields) ==
    {pat \in [DOMAIN fields -> Presence] : \E i \in DOMAIN fields : pat[i] # "one"}

AgeInputs ==
    {FullMap(AgeFields, <<a, mn, mx, s>>, e) :
        a \in Fr, mn \in Fr, mx \in Fr, s \in StudyIds, e \in BOOLEAN}
    \cup
    {DefectMap(AgeFields, pat, <<a, FrFrom(1), FrFrom(1), FrZero>>) :
        pat \in Defects(AgeFields), a \in {FrFrom(0), FrFrom(1)}}

DiagInputs ==
    {FullMap(DiagFields, <<d, r, s>>, e) :
        d \in Fr, r \in Fr, s \in StudyIds, e \in BOOLEAN}
    \cup
    {DefectMap(DiagFields, pat, <<d, FrFrom(1), FrZero>>) :
        pat \in Defects(DiagFields), d \in {FrFrom(0), FrFrom(1)}}

\* A map that names a composite eligibility code and nothing else.
CodeInputs == {[NoInputs EXCEPT !["code"] = Entry(<<FrFrom(c)>>)] : c \in 0..MaxLo}

WrapperInputs == {Stringify(m) : m \in AgeInputs}

DiagWasmInputs == {Stringify(m) : m \in DiagInputs}

GenInputs(path) ==
    IF path = "age" THEN AgeInputs \cup CodeInputs
    ELSE IF path = "diag" THEN DiagInputs
    ELSE IF path = "diag_wasm" THEN DiagWasmInputs
    ELSE WrapperInputs

NoBundle == [path |-> "none", proof |-> NoProof, pubs |-> <<>>]

\* What a caller may hand to verify in place of the vector v it was given:
\* v, its rearrangements, its prefixes, v under another study identifier,
\* v with an element more.
Variants(v) ==
    {[i \in DOMAIN v |-> v[f[i]]] : f \in Permutations(DOMAIN v)}
    \cup {SubSeq(v, 1, k) : k \in 0..(Len(v) - 1)}
    \cup {[i \in DOMAIN v |-> IF i = Len(v) THEN s ELSE v[i]] : s \in StudyIds}
    \cup {Append(v, FrZero)}

BaseVectors == {[i \in 1..n |-> FrZero] : n \in 0..4}

VerifyCall(path, vk, proof, pubs, corrupt) ==
    [path |-> path, vk |-> vk, proof |-> proof, pubs |-> pubs, corrupt |-> corrupt]

OtherShape(shape) == IF shape = "age" THEN "diag" ELSE "age"

VerifyCalls(h) ==
    {VerifyCall(p, ShapeOf(p), GarbageProof, v, FALSE) :
        p \in Paths, v \in (IF h.path = "none" THEN BaseVectors ELSE {h.pubs})}
    \cup
    (IF h.path = "none" THEN {}
     ELSE {VerifyCall(h.path, ShapeOf(h.path), h.proof, v, FALSE) : v \in Variants(h.pubs)}
          \cup {VerifyCall(h.path, ShapeOf(h.path), h.proof, h.pubs, c) :
                   c \in (IF Encoded(h.path) THEN BOOLEAN ELSE {FALSE})}
          \cup {VerifyCall(h.path, OtherShape(ShapeOf(h.path)), h.proof, h.pubs, FALSE)}
          \cup {VerifyCall(p, ShapeOf(p), h.proof, h.pubs, FALSE) : p \in Paths})

\* ------------------------------------------------------------------- state
NoLoc ==
    [vals |-> [n \in AllFields |-> FrZero], circuit |-> NoCircuit, pubs |-> <<>>,
     region |-> NoRegion]

NoResult ==
    [status |-> "none", err |-> NoErr, proof |-> NoProof, pubs |-> <<>>,
     bytes |-> NoBytes, accept |-> FALSE, value |-> 0]

NoCall ==
    [op |-> "none", path |-> "none", inputs |-> NoInputs, params |-> "none",
     proof |-> NoProof, pubs |-> <<>>, bytes |-> NoBytes,
     code |-> "", codes |-> <<>>]

ErrResult(e) == [NoResult EXCEPT !.status = "err", !.err = e]

\* A call's own state: its position, arguments, locals and result.
Running ==
    [pc |-> pc, call |-> call, loc |-> loc, result |-> result,
     proveCalls |-> proveCalls, verifyCalls |-> verifyCalls]

\* No second call is in progress.
NoParked ==
    [pc |-> "none", call |-> NoCall, loc |-> NoLoc, result |-> NoResult,
     proveCalls |-> 0, verifyCalls |-> 0]

Terminal ==
    {"emitted", "failed", "panicked", "accepted", "rejected", "verror", "returned"}

\* Lists of at most MaxCodes diagnosis codes.
CodeLists == UNION {[1..n -> Codes] : n \in 0..MaxCodes}

Init ==
    /\ pc = "idle"
    /\ call = NoCall
    /\ loc = NoLoc
    /\ result = NoResult
    /\ held = NoBundle
    /\ rngLog = <<>>
    /\ proveCalls = 0
    /\ verifyCalls = 0
    /\ parked = NoParked

\* ---------------------------------------------------------------- generate
\* Input Received: generate_proof / prove_with_params is entered.
BeginGenerate ==
    /\ pc = "idle"
    /\ held = NoBundle
    /\ Len(rngLog) < MaxGen
    /\ pc' = "received"
    /\ \E path \in Paths : \E inputs \in GenInputs(path) : \E pk \in Shapes :
          call' = [NoCall EXCEPT !.op = "generate", !.path = path,
                                 !.inputs = inputs, !.params = pk]
    /\ UNCHANGED <<loc, result, held, rngLog, proveCalls, verifyCalls, parked>>

\* The named fields are extracted, in source order.
ExtractInputs ==
    /\ pc = "received"
    /\ LET ins == IF Encoded(call.path)
                  THEN deserialize_circuit_inputs(call.inputs)
                  ELSE call.inputs
           r == ExtractAll(RequiredFields(call.path), ins)
       IN  IF r.ok
           THEN /\ pc' = "extracted"
                /\ loc' = [loc EXCEPT !.vals = r.val]
                /\ UNCHANGED result
           ELSE /\ pc' = "failed"
                /\ result' = ErrResult(r.err)
                /\ UNCHANGED loc
    /\ UNCHANGED <<call, held, rngLog, proveCalls, verifyCalls, parked>>

\* Validated: the off-circuit predicate is checked.
ValidateInputs ==
    /\ pc = "extracted"
    /\ LET v == Validate(call.path, loc.vals)
       IN  IF v.ok
           THEN /\ pc' = "validated"
                /\ UNCHANGED result
           ELSE /\ pc' = "failed"
                /\ result' = ErrResult(v.err)
    /\ UNCHANGED <<call, loc, held, rngLog, proveCalls, verifyCalls, parked>>

\* AgeRangeCircuit values and their public inputs, as a caller of the
\* public generate_halo2_proof may construct them.
DirectCircuits ==
    {AgeRangeCircuit(FrFrom(a), FrFrom(mn), FrFrom(mx), st) :
        a \in 0..MaxLo, mn \in 0..MaxLo, mx \in 0..MaxLo, st \in StudyIds}

\* generate_halo2_proof(params, pk, circuit, public_inputs) is entered from
\* outside prove_with_params: nothing is extracted or validated.
BeginGenerateHalo2Proof ==
    /\ pc = "idle"
    /\ held = NoBundle
    /\ Len(rngLog) < MaxGen
    /\ pc' = "built"
    /\ \E circuit \in DirectCircuits : \E pk \in Shapes :
          /\ call' = [NoCall EXCEPT !.op = "generate_halo2", !.path = "direct",
                                    !.params = pk, !.pubs = AgeInstances(circuit)]
          /\ loc' = [NoLoc EXCEPT !.circuit = circuit, !.pubs = AgeInstances(circuit)]
    /\ UNCHANGED <<result, held, rngLog, proveCalls, verifyCalls, parked>>

\* Circuit Built: the circuit instance is constructed from the inputs.
CircuitBuiltUnvalidated ==
    /\ pc \in {"extracted", "validated"}
    /\ pc' = "built"
    /\ loc' = [loc EXCEPT !.circuit = BuildCircuit(call.path, loc.vals),
                          !.pubs = PublicInputs(call.path, loc.vals)]
    /\ UNCHANGED <<call, result, held, rngLog, proveCalls, verifyCalls, parked>>

CircuitBuilt ==
    /\ pc = "validated"
    /\ pc' = "built"
    /\ loc' = [loc EXCEPT !.circuit = BuildCircuit(call.path, loc.vals),
                          !.pubs = PublicInputs(call.path, loc.vals)]
    /\ UNCHANGED <<call, result, held, rngLog, proveCalls, verifyCalls, parked>>

\* Proving: the backend's prover is called with a random source; it
\* runs the circuit's synthesize.
InvokeProve ==
    /\ pc = "built"
    /\ pc' = "proving"
    /\ rngLog' = Append(rngLog, ProverRng(call.path, rngLog))
    /\ proveCalls' = proveCalls + 1
    /\ loc' = [loc EXCEPT !.region = Synthesize(loc.circuit)]
    /\ UNCHANGED <<call, result, held, verifyCalls, parked>>

\* Proof Emitted, or the backend's failure: map_err on the core paths,
\* expect("prover should not fail") on the wrapper.
ProveReturn ==
    /\ pc = "proving"
    /\ LET r == BackendProve(BackendOf(call.path), call.params, loc.circuit.shape,
                             loc.region,
                             ProverInstances(call.path, loc.circuit, loc.pubs),
                             rngLog[Len(rngLog)])
       IN  IF r.ok
           THEN /\ pc' = "emitted"
                /\ result' = [NoResult EXCEPT
                                !.status = "ok",
                                !.proof = r.val,
                                !.pubs = IF Encoded(call.path) THEN <<>> ELSE loc.pubs,
                                !.bytes = IF Encoded(call.path)
                                          THEN Serialize(loc.pubs) ELSE NoBytes]
                /\ held' = [path |-> call.path, proof |-> r.val, pubs |-> loc.pubs]
           ELSE IF Halo2(call.path)
           THEN /\ pc' = "panicked"
                /\ result' = [NoResult EXCEPT !.status = "panic"]
                /\ UNCHANGED held
           ELSE /\ pc' = "failed"
                /\ result' = ErrResult(Err("ProofGenFailed", "none", 0, 0))
                /\ UNCHANGED held
    /\ UNCHANGED <<call, loc, rngLog, proveCalls, verifyCalls, parked>>

\* ------------------------------------------------------------------ verify
\* Proof+PublicInputs Received: verify_proof / verify_with_params is entered.
\* call.pubs is the caller's vector; an entry point that takes bytes is
\* handed call.bytes, what the caller made of the vector.
BeginVerify ==
    /\ pc = "idle"
    /\ pc' = "vreceived"
    /\ \E c \in VerifyCalls(held) :
          call' = [NoCall EXCEPT
                     !.op = "verify", !.path = c.path, !.params = c.vk,
                     !.proof = c.proof,
                     !.pubs = c.pubs,
                     !.bytes = IF ~Encoded(c.path) THEN NoBytes
                               ELSE IF c.corrupt THEN Corrupt(c.pubs)
                               ELSE Serialize(c.pubs)]
    /\ UNCHANGED <<loc, result, held, rngLog, proveCalls, verifyCalls, parked>>

\* The declared public-input arity of the core verify_proof functions.
Arity(path) == IF ShapeOf(path) = "diag" THEN 2 ELSE 3

\* bincode::deserialize::<InputsSerializationWrapper>(&public_inputs) of
\* the entry points that take bytes; the others are handed the vector.
DecodePublicInputsSwapped(path, bytes, pubs) ==
    LET d == Deserialize(bytes)
    IN  IF ~Encoded(path) THEN Ok(pubs)
        ELSE IF ~d.ok THEN d
        ELSE Ok([k \in DOMAIN d.val |-> [hi |-> d.val[k].lo, lo |-> d.val[k].hi]])

DecodePublicInputsLenient(path, bytes, pubs) ==
    LET d == Deserialize(bytes)
    IN  IF ~Encoded(path) THEN Ok(pubs)
        ELSE IF ~d.ok THEN Ok(<<>>)
        ELSE d

DecodePublicInputs(path, bytes, pubs) ==
    IF Encoded(path) THEN Deserialize(bytes) ELSE Ok(pubs)

\* verify_proof of the circuit crates checks the count; verify_halo2_proof
\* of the wrapper does not.
CountChecked(path) == ~Halo2(path)

\* Deserialized: the bytes are decoded, and the core verify_proof
\* functions check the count.
DecodeInputs ==
    /\ pc = "vreceived"
    /\ LET d == DecodePublicInputs(call.path, call.bytes, call.pubs)
       IN  IF ~d.ok
           THEN /\ pc' = "verror"
                /\ result' = ErrResult(d.err)
                /\ UNCHANGED loc
           ELSE IF CountChecked(call.path) /\ Len(d.val) # Arity(call.path)
           THEN /\ pc' = "verror"
                /\ result' = ErrResult(Err("InvalidInputCount", "none",
                                           Len(d.val), Arity(call.path)))
                /\ UNCHANGED loc
           ELSE /\ pc' = "deserialized"
                /\ loc' = [loc EXCEPT !.pubs = d.val]
                /\ UNCHANGED result
    /\ UNCHANGED <<call, held, rngLog, proveCalls, verifyCalls, parked>>

\* Verifying: the backend's verifier is called.
InvokeVerify ==
    /\ pc = "deserialized"
    /\ pc' = "verifying"
    /\ verifyCalls' = verifyCalls + 1
    /\ UNCHANGED <<call, loc, result, held, rngLog, proveCalls, parked>>

\* Accepted or Rejected: result.map(|_| true).map_err(..) on the core
\* paths, Ok(result.is_ok()) on the wrapper.
VerifyReturn ==
    /\ pc = "verifying"
    /\ LET acc == BackendVerify(BackendOf(call.path), call.params, call.proof, loc.pubs)
       IN  IF acc
           THEN /\ pc' = "accepted"
                /\ result' = [NoResult EXCEPT !.status = "ok", !.accept = TRUE]
           ELSE IF Halo2(call.path)
           THEN /\ pc' = "rejected"
                /\ result' = [NoResult EXCEPT !.status = "ok", !.accept = FALSE]
           ELSE /\ pc' = "verror"
                /\ result' = ErrResult(Err("VerificationFailed", "none", 0, 0))
    /\ UNCHANGED <<call, loc, held, rngLog, proveCalls, verifyCalls, parked>>

\* ------------------------------------------------------ the two helpers
\* hash_diagnosis_code(code), called and returned.
HashDiagnosisCode ==
    /\ pc = "idle"
    /\ held = NoBundle
    /\ pc' = "returned"
    /\ \E code \in Codes :
          /\ call' = [NoCall EXCEPT !.op = "hash", !.code = code]
          /\ result' = [NoResult EXCEPT !.status = "ok",
                                        !.value = hash_diagnosis_code(code).val]
    /\ UNCHANGED <<loc, held, rngLog, proveCalls, verifyCalls, parked>>

\* validate_diagnosis_membership(patient_diagnoses, required_diagnosis),
\* called and returned.
ValidateDiagnosisMembership ==
    /\ pc = "idle"
    /\ held = NoBundle
    /\ pc' = "returned"
    /\ \E codes \in CodeLists : \E required \in Codes :
          LET r == validate_diagnosis_membership(codes, required)
          IN  /\ call' = [NoCall EXCEPT !.op = "member", !.codes = codes,
                                        !.code = required]
              /\ result' = IF r.ok THEN [NoResult EXCEPT !.status = "ok"]
                           ELSE ErrResult(r.err)
    /\ UNCHANGED <<loc, held, rngLog, proveCalls, verifyCalls, parked>>

\* The call has returned; nothing of it is retained.
Return ==
    /\ pc \in Terminal
    /\ pc' = "idle"
    /\ call' = NoCall
    /\ loc' = NoLoc
    /\ result' = NoResult
    /\ proveCalls' = 0
    /\ verifyCalls' = 0
    /\ UNCHANGED <<held, rngLog, parked>>

\* The caller lets go of the bundle it held.
Discard ==
    /\ pc = "idle"
    /\ held # NoBundle
    /\ held' = NoBundle
    /\ UNCHANGED <<pc, call, loc, result, rngLog, proveCalls, verifyCalls, parked>>

Next ==
    \/ BeginGenerate
    \/ BeginGenerateHalo2Proof
    \/ ExtractInputs
    \/ ValidateInputs
    \/ CircuitBuilt
    \/ InvokeProve
    \/ ProveReturn
    \/ BeginVerify
    \/ DecodeInputs
    \/ InvokeVerify
    \/ VerifyReturn
    \/ HashDiagnosisCode
    \/ ValidateDiagnosisMembership
    \/ Return
    \/ Discard

Spec == Init /\ [][Next]_vars

\* ------------------------------------------------------- concurrent calls
\* The functions are free functions over their arguments and locals; the
\* parameters are taken by shared reference.  Two callers are each in a
\* call; the processor runs one and may turn to the other between any two
\* steps.

\* Inputs of the generate calls made concurrently.
ConcurrentInputs(path) ==
    LET plain ==
            IF ShapeOf(path) = "diag"
            THEN {FullMap(DiagFields, <<d, FrFrom(1), st>>, FALSE) :
                     d \in {FrFrom(0), FrFrom(1)}, st \in StudyIds}
                 \cup {DefectMap(DiagFields, <<"one", "empty", "one">>,
                                 <<FrZero, FrZero, FrZero>>)}
            ELSE {FullMap(AgeFields, <<a, mn, FrFrom(MaxLo), st>>, FALSE) :
                     a \in {FrFrom(0), FrFrom(1), FrFrom(MaxLo)},
                     mn \in {FrFrom(0), FrFrom(1)}, st \in StudyIds}
                 \cup {DefectMap(AgeFields, <<"one", "one", "absent", "one">>,
                                 <<FrZero, FrZero, FrZero, FrZero>>)}
    IN  IF Encoded(path) THEN {Stringify(m) : m \in plain} ELSE plain

\* A proof made earlier on the path for the study identifier 0.
EarlierPubs(path) ==
    IF ShapeOf(path) = "diag" THEN <<FrFrom(1), FrZero>>
    ELSE <<FrFrom(1), FrFrom(MaxLo), FrZero>>

EarlierProof(path) ==
    [backend |-> BackendOf(path), shape |-> ShapeOf(path),
     inst |-> EarlierPubs(path), rnd |-> ProverRng(path, <<>>), sat |-> TRUE]

\* The calls a caller may be in: a generate call just entered, or a verify
\* call just entered with the earlier proof or other bytes, and the earlier
\* public inputs or those of another study.
ConcurrentCalls(params) ==
    UNION {{[NoCall EXCEPT !.op = "generate", !.path = path, !.inputs = inputs,
                          !.params = params] : inputs \in ConcurrentInputs(path)} :
              path \in Paths}
    \cup
    {[NoCall EXCEPT !.op = "verify", !.path = c.path, !.params = params,
                    !.proof = c.proof, !.pubs = c.pubs,
                    !.bytes = IF Encoded(c.path) THEN Serialize(c.pubs) ELSE NoBytes] :
        c \in UNION {{VerifyCall(path, params, proof, pubs, FALSE) :
                         proof \in {EarlierProof(path), GarbageProof},
                         pubs \in {EarlierPubs(path)} \cup
                                  {[EarlierPubs(path) EXCEPT ![Len(EarlierPubs(path))] = st] :
                                      st \in StudyIds}} :
                     path \in Paths}}

EntryOf(c) == IF c.op = "generate" THEN "received" ELSE "vreceived"

\* Both callers have entered their call, with the same parameters.
ConcurrentInit ==
    /\ held = NoBundle
    /\ rngLog = <<>>
    /\ loc = NoLoc
    /\ result = NoResult
    /\ proveCalls = 0
    /\ verifyCalls = 0
    /\ \E params \in Shapes :
          /\ call \in ConcurrentCalls(params)
          /\ \E c \in ConcurrentCalls(params) :
                parked = [NoParked EXCEPT !.pc = EntryOf(c), !.call = c]
    /\ pc = EntryOf(call)

\* The processor leaves the running call where it is and goes on with the
\* other; each call keeps its own arguments, locals and result.
SwitchSharingLocals ==
    /\ parked.pc \notin (Terminal \cup {"none"})
    /\ pc' = parked.pc
    /\ call' = parked.call
    /\ result' = parked.result
    /\ proveCalls' = parked.proveCalls
    /\ verifyCalls' = parked.verifyCalls
    /\ parked' = Running
    /\ UNCHANGED <<loc, held, rngLog>>

Switch ==
    /\ parked.pc \notin (Terminal \cup {"none"})
    /\ pc' = parked.pc
    /\ call' = parked.call
    /\ loc' = parked.loc
    /\ result' = parked.result
    /\ proveCalls' = parked.proveCalls
    /\ verifyCalls' = parked.verifyCalls
    /\ parked' = Running
    /\ UNCHANGED <<held, rngLog>>

ConcurrentNext ==
    \/ ExtractInputs
    \/ ValidateInputs
    \/ CircuitBuilt
    \/ InvokeProve
    \/ ProveReturn
    \/ DecodeInputs
    \/ InvokeVerify
    \/ VerifyReturn
    \/ Switch

ConcurrentSpec == ConcurrentInit /\ [][ConcurrentNext]_vars

\* ================================================================= claims
\* What the current call was given, as the call reads it.
ParsedInputs ==
    IF Encoded(call.path) THEN deserialize_circuit_inputs(call.inputs) ELSE call.inputs

Given(n) == ParsedInputs[n].present /\ Len(ParsedInputs[n].vals) > 0

In0(n) == ParsedInputs[n].vals[1]

IsGenerate == call.op = "generate"

IsVerify == call.op = "verify"

AgePath == call.path # "none" /\ ShapeOf(call.path) = "age"

\* The age inputs are u64 numbers coerced into the field (Fr::from(u64)).
AgeInputsU64 ==
    /\ Given("age") /\ Given("min_age") /\ Given("max_age")
    /\ IsU64(In0("age")) /\ IsU64(In0("min_age")) /\ IsU64(In0("max_age"))

\* validate_age_range has been called in this call, and with which numbers.
RangeChecked ==
    /\ IsGenerate /\ AgePath
    /\ \/ pc \in {"validated", "built", "proving", "emitted", "panicked"}
       \/ pc = "failed" /\ result.err.tag \notin {"Missing", "Invalid"}

RangeOk ==
    \/ pc \in {"validated", "built", "proving", "emitted", "panicked"}
    \/ pc = "failed" /\ result.err.tag = "ProofGenFailed"

AgeArg == loc.vals["age"].lo

MinArg == loc.vals["min_age"].lo

MaxArg == loc.vals["max_age"].lo

\* C1, as stated: validate_age_range(age, min_age, max_age) succeeds iff
\* min_age <= age <= max_age; age < min_age fails naming age as below
\* min_age, and age > max_age fails naming age as above max_age.
C1_AsStated ==
    RangeChecked =>
        /\ RangeOk <=> (MinArg <= AgeArg /\ AgeArg <= MaxArg)
        /\ AgeArg < MinArg =>
              pc = "failed" /\ result.err = Err("AgeBelowMin", "age", AgeArg, MinArg)
        /\ AgeArg > MaxArg =>
              pc = "failed" /\ result.err = Err("AgeAboveMax", "age", AgeArg, MaxArg)

\* C1, amended: validate_age_range(age, min_age, max_age) succeeds iff
\* min_age <= age <= max_age, both bounds inclusive; age < min_age fails
\* naming age as below min_age; age > max_age fails naming age as above
\* max_age when age >= min_age (an age outside both bounds is reported as
\* below min_age).
C1_ValidateAgeRange ==
    RangeChecked =>
        /\ RangeOk <=> (MinArg <= AgeArg /\ AgeArg <= MaxArg)
        /\ AgeArg < MinArg =>
              pc = "failed" /\ result.err = Err("AgeBelowMin", "age", AgeArg, MinArg)
        /\ (AgeArg >= MinArg /\ AgeArg > MaxArg) =>
              pc = "failed" /\ result.err = Err("AgeAboveMax", "age", AgeArg, MaxArg)

C1_Witness ==
    /\ RangeChecked
    /\ AgeArg >= MinArg /\ AgeArg > MaxArg
    /\ pc = "failed"

ReturnedPubs ==
    IF ~Encoded(call.path) THEN result.pubs
    ELSE IF Deserialize(result.bytes).ok THEN Deserialize(result.bytes).val
    ELSE <<>>

\* The vector a verify call was handed.
SuppliedPubs ==
    IF ~Encoded(call.path) THEN call.pubs
    ELSE IF Deserialize(call.bytes).ok THEN Deserialize(call.bytes).val
    ELSE <<>>

SuppliedDecodes == Encoded(call.path) => Deserialize(call.bytes).ok

OtherStudy(u, v) ==
    /\ Len(u) = Len(v)
    /\ Len(v) > 0
    /\ \A i \in 1..(Len(v) - 1) : u[i] = v[i]
    /\ u[Len(v)] # v[Len(v)]

\* C4: a proof generated under study identifier s1 is never accepted when
\* the public inputs carry another study identifier s2 and are otherwise
\* unchanged, for the age-range and the diagnosis circuit.
C4_StudyBinding ==
    (/\ IsVerify
     /\ held.path # "none"
     /\ call.proof = held.proof
     /\ OtherStudy(SuppliedPubs, held.pubs))
    =>
        /\ pc # "accepted"
        /\ ~result.accept

C4_Witness ==
    /\ IsVerify
    /\ held.path = "diag"
    /\ call.path = "diag"
    /\ call.proof = held.proof
    /\ OtherStudy(SuppliedPubs, held.pubs)
    /\ verifyCalls = 1
    /\ pc = "verror"

IsPermutationOf(u, v) ==
    /\ Len(u) = Len(v)
    /\ \E f \in Permutations(DOMAIN v) : u = [i \in DOMAIN v |-> v[f[i]]]

IsTruncationOf(u, v) == Len(u) < Len(v) /\ u = SubSeq(v, 1, Len(u))

\* C5: verify never accepts a valid proof with a rearrangement of its
\* public inputs that differs from them, or with a truncation of them: the
\* call ends false or in an error.
C5_PermutedOrTruncatedRejected ==
    (/\ IsVerify
     /\ held.path # "none"
     /\ call.proof = held.proof
     /\ SuppliedPubs # held.pubs
     /\ \/ IsPermutationOf(SuppliedPubs, held.pubs)
        \/ IsTruncationOf(SuppliedPubs, held.pubs))
    =>
        /\ pc # "accepted"
        /\ ~result.accept
        /\ pc \in Terminal => pc \in {"rejected", "verror"}

C5_Witness ==
    /\ IsVerify
    /\ held.path = "age"
    /\ call.path = "age"
    /\ call.proof = held.proof
    /\ SuppliedPubs # held.pubs
    /\ IsPermutationOf(SuppliedPubs, held.pubs)
    /\ verifyCalls = 1
    /\ pc = "verror"

\* C6, as stated: every verify entry point, the wrapper's included, fails
\* with an invalid-count error and without invoking the backend when the
\* number of public inputs differs from the circuit's arity.
C6_AsStated ==
    (/\ IsVerify
     /\ SuppliedDecodes
     /\ Len(SuppliedPubs) # Arity(call.path))
    =>
        /\ verifyCalls = 0
        /\ pc \notin {"deserialized", "verifying", "accepted", "rejected"}
        /\ pc \in Terminal =>
              (pc = "verror" /\ result.err.tag = "InvalidInputCount")

\* C7, as stated: with public inputs of the declared arity, verify ends
\* in true or false, never in an error value.
C7_AsStated ==
    (/\ IsVerify
     /\ SuppliedDecodes
     /\ Len(SuppliedPubs) = Arity(call.path)
     /\ pc \in Terminal)
    =>
        /\ result.status = "ok"
        /\ pc \in {"accepted", "rejected"}

\* C8, as stated: no two generate calls hand the backend the same
\* randomness stream.
C8_AsStated ==
    \A i \in DOMAIN rngLog : \A j \in DOMAIN rngLog :
        i # j => rngLog[i] # rngLog[j]

MissingRequired ==
    \E i \in DOMAIN RequiredFields(call.path) : ~Given(RequiredFields(call.path)[i])

\* C9: a generate call with a required named input absent or mapped to an
\* empty list fails with a missing-field error (Missing for an absent name,
\* Invalid for an empty list); validation and the backend are not invoked
\* and no proof is emitted.
C9_MissingFieldFails ==
    (IsGenerate /\ MissingRequired)
    =>
        /\ pc \in {"received", "failed"}
        /\ proveCalls = 0
        /\ result.proof = NoProof
        /\ held = NoBundle
        /\ pc = "failed" =>
              /\ result.status = "err"
              /\ result.err.tag \in {"Missing", "Invalid"}
              /\ \E i \in DOMAIN RequiredFields(call.path) :
                    /\ result.err.field = RequiredFields(call.path)[i]
                    /\ ~Given(result.err.field)
                    /\ result.err.tag = "Missing" <=> ~ParsedInputs[result.err.field].present

C9_Witness ==
    /\ IsGenerate /\ MissingRequired
    /\ pc = "failed"
    /\ result.err.tag = "Invalid"

\* C10, as stated: diagnosis generate fails with the not-a-member error,
\* before any backend call, whenever the diagnosis_hash field element
\* differs from the required_hash field element.
C10_AsStated ==
    (/\ IsGenerate /\ ShapeOf(call.path) = "diag"
     /\ Given("diagnosis_hash") /\ Given("required_hash")
     /\ In0("diagnosis_hash") # In0("required_hash"))
    =>
        /\ proveCalls = 0
        /\ pc \notin {"validated", "built", "proving", "emitted"}
        /\ (Given("study_id") /\ pc \in Terminal) =>
              (pc = "failed" /\ result.err.tag = "HashMismatch")

\* The public inputs a verify call went on with after decoding.
Decoded == pc \in {"deserialized", "verifying", "accepted", "rejected"}
           \/ (pc = "verror" /\ result.err.tag = "VerificationFailed")

C14_CorruptBytesFail ==
    (IsVerify /\ Encoded(call.path) /\ ~Deserialize(call.bytes).ok)
    =>
        /\ verifyCalls = 0
        /\ pc \in {"vreceived", "verror"}
        /\ ~result.accept
        /\ pc = "verror" => (result.status = "err" /\ result.err.tag = "Corrupt")

C14_Witness ==
    /\ IsVerify /\ call.path = "age_wasm"
    /\ call.proof = held.proof /\ held.path = "age_wasm"
    /\ ~Deserialize(call.bytes).ok
    /\ pc = "verror"
    /\ result.err.tag = "Corrupt"

\* The sum of the bytes from position i on.
RECURSIVE ByteSumFrom(_, _)
ByteSumFrom(bytes, i) ==
    IF i > Len(bytes) THEN 0 ELSE bytes[i] + ByteSumFrom(bytes, i + 1)

\* C11: hash_diagnosis_code always returns, and returns the sum of the
\* byte values of the code, whatever calls came before: equal codes hash
\* equal, "E11.9" hashes to 270 and "I10" to 170, which differ.
C11_HashIsByteSum ==
    (call.op = "hash" /\ pc = "returned")
    =>
        /\ result.status = "ok"
        /\ result.value = ByteSumFrom(Utf8(call.code), 1)
        /\ call.code = "E11.9" => result.value = 270
        /\ call.code = "I10" => result.value = 170

C11_Witness ==
    /\ call.op = "hash" /\ pc = "returned"
    /\ call.code = "E11.9"
    /\ result.value = 270
    /\ Len(rngLog) > 0

\* C12: validate_diagnosis_membership(patient_diagnoses, required)
\* succeeds iff some element of the list is exactly the required string,
\* at whatever position; otherwise, and so for the empty list, it fails
\* with an error naming the required diagnosis.
C12_MembershipIffContained ==
    (call.op = "member" /\ pc = "returned")
    =>
        /\ result.status \in {"ok", "err"}
        /\ result.status = "ok" <=> \E i \in DOMAIN call.codes : call.codes[i] = call.code
        /\ result.status = "err" => result.err = Err("NotMember", call.code, 0, 0)
        /\ call.codes = <<>> => result.status = "err"

C12_Witness ==
    /\ call.op = "member" /\ pc = "returned"
    /\ call.codes = <<"E11.9", "I10">>
    /\ call.code = "I10"
    /\ result.status = "ok"

\* C15, as stated: generate of the composite crate with code = c returns a
\* proof and the public inputs [c]; its circuit takes one public input, so
\* verify with one public input ends in true or false.
C15_AsStated ==
    /\ (/\ IsGenerate /\ call.path = "age"
        /\ Given("code")
        /\ pc \in Terminal)
       =>
          /\ pc = "emitted"
          /\ result.pubs = <<In0("code")>>
    /\ (/\ IsVerify /\ call.path = "age"
        /\ Len(call.pubs) = 1
        /\ pc \in Terminal)
       => pc \in {"accepted", "rejected"}

\* The backend's prover was called in this generate call and failed.
BackendFailed ==
    /\ IsGenerate
    /\ proveCalls > 0
    /\ pc \in Terminal
    /\ ~BackendProve(BackendOf(call.path), call.params, loc.circuit.shape,
                     loc.region,
                     ProverInstances(call.path, loc.circuit, loc.pubs),
                     rngLog[Len(rngLog)]).ok

\* C16, as stated: a failure of the proving backend ends the generate call
\* in an error value, with no proof, after one backend call and without a
\* crash, on the core paths and on the wrapper.
C16_AsStated ==
    BackendFailed
    =>
        /\ pc = "failed"
        /\ result.status = "err"
        /\ result.err.tag = "ProofGenFailed"
        /\ result.proof = NoProof
        /\ proveCalls = 1

\* Validation has succeeded in this generate call.
PastValidation == pc \in {"validated", "built", "proving", "emitted", "panicked"}
                  \/ (pc = "failed" /\ result.err.tag = "ProofGenFailed")

\* The stages a generate call may move between in one step.
StageOrder ==
    {<<"idle", "received">>, <<"received", "extracted">>, <<"received", "failed">>,
     <<"extracted", "validated">>, <<"extracted", "failed">>,
     <<"validated", "built">>, <<"built", "proving">>,
     <<"proving", "emitted">>, <<"proving", "failed">>, <<"proving", "panicked">>,
     <<"emitted", "idle">>, <<"failed", "idle">>, <<"panicked", "idle">>}

\* C18: a generate call moves Input Received -> Validated -> Circuit Built
\* -> Proving -> Proof Emitted and in no other order: the circuit is built
\* only once validation has succeeded, the backend is invoked only once
\* the circuit is built, a proof is emitted only out of Proving, and a
\* stage that fails ends the call with no later stage visited.
C18_StageOrder ==
    [][/\ (IsGenerate \/ IsGenerate') => (pc' = pc \/ <<pc, pc'>> \in StageOrder)
       /\ (IsGenerate' /\ loc'.circuit # NoCircuit)
             => (PastValidation' /\ Validate(call'.path, loc'.vals).ok
                 /\ pc' \notin {"received", "extracted", "validated"})
       /\ (IsGenerate' /\ proveCalls' > 0)
             => (loc'.circuit # NoCircuit /\ pc' \notin {"received", "extracted",
                                                          "validated", "built"})
       /\ (IsGenerate' /\ pc' = "emitted") => (pc = "proving" \/ pc = "emitted")
       /\ (IsGenerate /\ pc \in {"failed", "panicked"})
             => (pc' = pc \/ pc' = "idle")
      ]_vars

C18_Witness ==
    /\ IsGenerate
    /\ pc = "emitted"
    /\ proveCalls = 1
    /\ loc.circuit # NoCircuit

\* C19: the public inputs generate returns are the circuit instance's
\* instances(), element for element: [min_age, max_age, study_id] for the
\* age-range circuit and [required_hash, study_id] for the diagnosis
\* circuit, each the value the caller supplied under that name.
C19_ReturnedPubsAreInstances ==
    (IsGenerate /\ pc = "emitted")
    =>
        /\ ShapeOf(call.path) = "age" =>
              /\ ReturnedPubs = AgeInstances(loc.circuit)
              /\ ReturnedPubs = <<In0("min_age"), In0("max_age"), In0("study_id")>>
        /\ ShapeOf(call.path) = "diag" =>
              /\ ReturnedPubs = DiagInstances(loc.circuit)
              /\ ReturnedPubs = <<In0("required_hash"), In0("study_id")>>

C19_Witness ==
    /\ IsGenerate /\ pc = "emitted"
    /\ call.path = "diag"
    /\ result.pubs = <<In0("required_hash"), In0("study_id")>>
    /\ In0("required_hash") # In0("study_id")

\* The assignments synthesize made to a column.
AssignedTo(col) == {i \in DOMAIN loc.region.assigned : loc.region.assigned[i].column = col}

\* C20, as stated: synthesize gives every column declared equality-enabled
\* (the instance column among them) exactly one assignment, at row 0, and
\* enables the selector at row 0 only.
C20_AsStated ==
    (IsGenerate /\ proveCalls > 0)
    =>
        /\ loc.region.enabled = {0}
        /\ \A col \in Configure(loc.circuit.shape).equality :
              /\ Cardinality(AssignedTo(col)) = 1
              /\ \A i \in AssignedTo(col) : loc.region.assigned[i].row = 0

\* What a call returns when it runs alone: the stages in order, from the
\* call's arguments only.
AloneGenerate(c) ==
    LET ins == IF Encoded(c.path) THEN deserialize_circuit_inputs(c.inputs) ELSE c.inputs
        x == ExtractAll(RequiredFields(c.path), ins)
        v == Validate(c.path, x.val)
        circuit == BuildCircuit(c.path, x.val)
        pubs == PublicInputs(c.path, x.val)
        r == BackendProve(BackendOf(c.path), c.params, circuit.shape,
                          Synthesize(circuit),
                          ProverInstances(c.path, circuit, pubs), 0)
    IN  IF ~x.ok THEN [status |-> "err", err |-> x.err, pubs |-> <<>>, accept |-> FALSE]
        ELSE IF ~v.ok THEN [status |-> "err", err |-> v.err, pubs |-> <<>>, accept |-> FALSE]
        ELSE IF r.ok THEN [status |-> "ok", err |-> NoErr, pubs |-> pubs, accept |-> FALSE]
        ELSE IF c.path = "wrapper"
        THEN [status |-> "panic", err |-> NoErr, pubs |-> <<>>, accept |-> FALSE]
        ELSE [status |-> "err", err |-> Err("ProofGenFailed", "none", 0, 0),
              pubs |-> <<>>, accept |-> FALSE]

AloneVerify(c) ==
    LET d == DecodePublicInputs(c.path, c.bytes, c.pubs)
        acc == BackendVerify(BackendOf(c.path), c.params, c.proof, d.val)
    IN  IF ~d.ok THEN [status |-> "err", err |-> d.err, pubs |-> <<>>, accept |-> FALSE]
        ELSE IF CountChecked(c.path) /\ Len(d.val) # Arity(c.path)
        THEN [status |-> "err",
              err |-> Err("InvalidInputCount", "none", Len(d.val), Arity(c.path)),
              pubs |-> <<>>, accept |-> FALSE]
        ELSE IF acc THEN [status |-> "ok", err |-> NoErr, pubs |-> <<>>, accept |-> TRUE]
        ELSE IF c.path = "wrapper"
        THEN [status |-> "ok", err |-> NoErr, pubs |-> <<>>, accept |-> FALSE]
        ELSE [status |-> "err", err |-> Err("VerificationFailed", "none", 0, 0),
              pubs |-> <<>>, accept |-> FALSE]

Alone(c) == IF c.op = "generate" THEN AloneGenerate(c) ELSE AloneVerify(c)

\* What a finished call returned: success or error, the public inputs,
\* accepted or not.
OutcomeOf(t) ==
    [status |-> t.result.status,
     err |-> t.result.err,
     pubs |-> IF ~Encoded(t.call.path) THEN t.result.pubs
              ELSE IF t.result.status = "ok" /\ t.call.op = "generate"
              THEN Deserialize(t.result.bytes).val
              ELSE <<>>,
     accept |-> t.result.accept]

AsAlone(t) == t.pc \in Terminal => OutcomeOf(t) = Alone(t.call)

\* The parameters the two calls were entered with.
ParamsInUse == {call.params, parked.call.params}

\* C17: with two calls in progress under the same parameters and their
\* steps interleaved in any way, each call returns what it returns when
\* run alone (success or error, public inputs, accept or reject), and no
\* step changes the parameters or the arguments of either call.
C17_Stateless ==
    [][/\ AsAlone(Running')
       /\ AsAlone(parked')
       /\ ParamsInUse' = ParamsInUse
       /\ {call', parked'.call} = {call, parked.call}
      ]_vars

C17_Witness ==
    /\ IsGenerate /\ call.path = "wrapper" /\ pc = "emitted"
    /\ parked.call.op = "verify" /\ parked.pc = "verifying"
    /\ OutcomeOf(Running) = Alone(call)
    /\ result.status = "ok"

\* The witness of the circuit lies outside [min_age, max_age].
OutOfRange(c) == ~(FrLeq(c.min_age, c.age) /\ FrLeq(c.age, c.max_age))

\* C21: the age-range gate vanishes on every assignment of (age, min_age,
\* max_age), so it does not enforce the range: generate_halo2_proof called
\* directly, with an age in or out of [min_age, max_age], emits a proof
\* that verifies, and verify accepts it against [min_age, max_age,
\* study_id].
C21_GateDoesNotEnforceRange ==
    /\ (proveCalls > 0 /\ loc.circuit.shape = "age")
       => \A row \in Rows : AgeGate(loc.region, row) = "zero"
    /\ (call.op = "generate_halo2" /\ call.params = "age" /\ pc \in Terminal)
       =>
          /\ pc = "emitted"
          /\ result.pubs = <<loc.circuit.min_age, loc.circuit.max_age,
                             loc.circuit.study_id>>
          /\ BackendVerify("halo2", "age", result.proof, result.pubs)
    /\ (/\ IsVerify
        /\ held.path = "direct"
        /\ Halo2(call.path)
        /\ call.proof = held.proof
        /\ SuppliedDecodes
        /\ SuppliedPubs = held.pubs
        /\ call.params = "age"
        /\ pc \in Terminal)
       => (pc = "accepted" /\ result.accept)

\* An empty range: whatever age the proof was made with lies outside it.
C21_Witness ==
    /\ IsVerify
    /\ held.path = "direct"
    /\ call.path = "wrapper"
    /\ call.proof = held.proof
    /\ SuppliedPubs = held.pubs
    /\ ~FrLeq(held.pubs[1], held.pubs[2])
    /\ pc = "accepted"

\* The three numbers of the range check, as field elements.
RangeNames == {"age", "min_age", "max_age"}

\* C22, as stated: whenever age-range generate succeeds, the field
\* elements age, min_age, max_age placed in the circuit satisfy
\* min_age <= age <= max_age as integers, values of 2^64 and more
\* included, and field_to_u64 maps distinct input elements to distinct
\* numbers.
C22_AsStated ==
    /\ (IsGenerate /\ AgePath /\ pc = "emitted")
       =>
          /\ FrLeq(loc.circuit.min_age, loc.circuit.age)
          /\ FrLeq(loc.circuit.age, loc.circuit.max_age)
    /\ RangeChecked
       => \A m \in RangeNames : \A n \in RangeNames :
             loc.vals[m] # loc.vals[n]
                => field_to_u64(loc.vals[m]).val # field_to_u64(loc.vals[n]).val

\* C23: when the min_age handed to validate_age_range exceeds the max_age
\* (an empty range), validation and so generate fail whatever the age, and
\* no proof is emitted; an age outside both bounds (max_age < age <
\* min_age) is reported as below the minimum.
C23_EmptyRangeFails ==
    /\ (RangeChecked /\ MinArg > MaxArg)
       =>
          /\ pc = "failed"
          /\ result.err.tag \in {"AgeBelowMin", "AgeAboveMax"}
          /\ proveCalls = 0
          /\ result.proof = NoProof
          /\ held = NoBundle
    /\ (RangeChecked /\ MaxArg < AgeArg /\ AgeArg < MinArg)
       => result.err = Err("AgeBelowMin", "age", AgeArg, MinArg)
    /\ (/\ IsGenerate /\ AgePath /\ AgeInputsU64
        /\ In0("min_age").lo > In0("max_age").lo)
       =>
          /\ pc \notin {"validated", "built", "proving", "emitted", "panicked"}
          /\ proveCalls = 0

C23_Witness ==
    /\ RangeChecked
    /\ MaxArg < AgeArg /\ AgeArg < MinArg
    /\ Given("study_id")
    /\ pc = "failed"
    /\ result.err.tag = "AgeBelowMin"

\* The first of age, min_age, max_age, study_id that is absent or empty.
FirstMissing ==
    CHOOSE i \in DOMAIN AgeFields :
        /\ ~Given(AgeFields[i])
        /\ \A j \in 1..(i - 1) : Given(AgeFields[j])

\* The inputs with every list cut down to its element 0.
FirstOnly(inputs) ==
    [n \in AllFields |->
        [present |-> inputs[n].present,
         vals |-> IF Len(inputs[n].vals) > 1 THEN SubSeq(inputs[n].vals, 1, 1)
                  ELSE inputs[n].vals]]

\* C24: age-range generate checks age, min_age, max_age, study_id in that
\* order and reports the first that is absent (Missing) or empty
\* (Invalid); the four checks precede the range check, so a missing
\* study_id is reported even with an age out of range; only element 0 of
\* a list is used, further elements do not change the outcome.
C24_ExtractionOrder ==
    /\ (IsGenerate /\ AgePath /\ MissingRequired /\ pc # "received")
       =>
          /\ pc = "failed"
          /\ result.err =
                Err(IF ParsedInputs[AgeFields[FirstMissing]].present
                    THEN "Invalid" ELSE "Missing",
                    AgeFields[FirstMissing], 0, 0)
    /\ (IsGenerate /\ AgePath /\ ~MissingRequired /\ pc # "received")
       => \A i \in DOMAIN AgeFields : loc.vals[AgeFields[i]] = In0(AgeFields[i])
    /\ (IsGenerate /\ AgePath /\ pc \in Terminal)
       => OutcomeOf(Running) = AloneGenerate([call EXCEPT !.inputs = FirstOnly(call.inputs)])

C24_Witness ==
    /\ IsGenerate /\ AgePath
    /\ Given("age") /\ Given("min_age") /\ Given("max_age")
    /\ ParsedInputs["study_id"].present /\ ~Given("study_id")
    /\ In0("age").lo < In0("min_age").lo
    /\ pc = "failed"
    /\ result.err = Err("Invalid", "study_id", 0, 0)

\* The named inputs of a call, decoded.
InputsOf(c) ==
    IF Encoded(c.path) THEN deserialize_circuit_inputs(c.inputs) ELSE c.inputs

\* A successful age-range generate call.
AgeEmitted(t) ==
    /\ t.call.op = "generate"
    /\ t.call.path \in Paths
    /\ ShapeOf(t.call.path) = "age"
    /\ t.pc = "emitted"

\* Two calls given the same min_age, max_age and study_id.
SamePublic(c, d) ==
    \A n \in {"min_age", "max_age", "study_id"} :
        InputsOf(c)[n].vals[1] = InputsOf(d)[n].vals[1]

\* The age given to a call does not occur in the vector it returned, unless
\* it equals one of the public values.
AgeNotReturned(t) ==
    LET ins == InputsOf(t.call)
        out == OutcomeOf(t).pubs
    IN  \A i \in DOMAIN out :
           out[i] = ins["age"].vals[1]
              => ins["age"].vals[1] \in {ins["min_age"].vals[1], ins["max_age"].vals[1],
                                        ins["study_id"].vals[1]}

\* C25: the public-input vector of a successful age-range generate does
\* not depend on the private age: two calls that agree on min_age, max_age
\* and study_id return the same vector whatever their ages, and the age
\* occurs in the vector only where it equals a public value.
C25_PubsIndependentOfAge ==
    /\ (AgeEmitted(Running) /\ AgeEmitted(parked) /\ SamePublic(call, parked.call))
       => OutcomeOf(Running).pubs = OutcomeOf(parked).pubs
    /\ AgeEmitted(Running) => AgeNotReturned(Running)
    /\ AgeEmitted(parked) => AgeNotReturned(parked)

C25_Witness ==
    /\ AgeEmitted(Running) /\ AgeEmitted(parked)
    /\ SamePublic(call, parked.call)
    /\ InputsOf(call)["age"].vals[1] # InputsOf(parked.call)["age"].vals[1]
    /\ InputsOf(call)["age"].vals[1] # InputsOf(call)["min_age"].vals[1]
    /\ OutcomeOf(Running).pubs = OutcomeOf(parked).pubs
    /\ Len(OutcomeOf(Running).pubs) = 3

====
